---- MODULE Spec2Model ----
\* A model of janvainer/WaveGrad's training utilities:
\*   logger.py  Logger        (rank-gated recorder, checkpoint rotation)
\*   data.py    AudioDataset  (segment cropping / padding, test batches)
\* Two specifications share the module: SpecLogger drives a Logger against a
\* log directory and a monitoring backend, SpecData drives an AudioDataset
\* over a filelist of mono clips.
EXTENDS Integers, Sequences, FiniteSets, TLC

VARIABLES
    \* ---- logger.py ----
    phase,      \* "new": Logger(config, rank) not yet run; "live"; "failed": __init__ raised
    rank,       \* the rank argument of Logger.__init__
    config,     \* the config argument: [continue_training]
    self,       \* the Logger's attributes, a function from attribute name to value
    fs,         \* the log directory: [exists, config_json, events, ckpt]
    backend,    \* what the SummaryWriter session has recorded: a set of events
    model,      \* the model/optimizer handed to the Logger: iteration restored into it (0: none)
    ncalls,     \* number of method calls made on the Logger
    last,       \* the last method call: [op, iteration, result]
    \* ---- data.py ----
    dataset,    \* the AudioDataset: [training, segment_length, hop_length, files]
    ret         \* the last dataset call and what it returned

loggerVars == <<phase, rank, config, self, fs, backend, model, ncalls, last>>
dataVars == <<dataset, ret>>
vars == <<phase, rank, config, self, fs, backend, model, ncalls, last, dataset, ret>>

\* ---------------------------------------------------------------- bounds
MaxRank == 1        \* ranks 0..MaxRank
MaxIter == 3        \* iteration numbers 1..MaxIter
MaxCalls == 3       \* method calls made on one Logger
MaxFiles == 2       \* entries of the filelist
MaxLen == 3         \* samples of one clip
MaxSeg == 2         \* config.training_config.segment_length
MaxHop == 2         \* config.data_config.hop_length

Ranks == 0..MaxRank
Iterations == 1..MaxIter
Keys == {"loss"}

None == "None"

\* The path of checkpoint_{i}.pt in the session directory, and the None the
\* tracked-path attribute starts as.
Path(i) == <<i>>
NoPath == <<>>

\* ================================================================ logger.py

NoCkpt == [i \in Iterations |-> "absent"]

\* The checkpoint files checkpoint_{i}.pt the log directory holds.
CheckpointFiles == {i \in Iterations : fs.ckpt[i] # "absent"}

Max(S) == CHOOSE m \in S : \A x \in S : x <= m

\* A call's record; returning normally is result "ok", raising is the
\* exception's name.
Call(op, iteration, result) == [op |-> op, iteration |-> iteration, result |-> result]

\* ---- Logger.__init__ --------------------------------------------------
\* Lines 12-17 run for every rank and set the attributes; the tracked-path
\* attribute is created under the name lates_checkpoint_path.
InitAttrs ==
    [rank |-> rank,
     summary_writer |-> None,
     continue_training |-> config.continue_training,
     lates_checkpoint_path |-> NoPath]

\* Mutant: the existence test is made after the directory work instead of
\* before it.
LoggerInitLateCheck ==
    /\ phase = "new"
    /\ IF rank = 0
       THEN IF ~config.continue_training /\ fs.exists
            THEN /\ phase' = "failed"
                 /\ self' = [InitAttrs EXCEPT !.summary_writer = "writer"]
                 /\ fs' = [fs EXCEPT !.events = TRUE, !.config_json = TRUE]
                 /\ last' = Call("__init__", 0, "RuntimeError")
            ELSE /\ phase' = "live"
                 /\ self' = [InitAttrs EXCEPT !.summary_writer = "writer"]
                 /\ fs' = [fs EXCEPT !.exists = TRUE, !.events = TRUE, !.config_json = TRUE]
                 /\ last' = Call("__init__", 0, "ok")
       ELSE /\ phase' = "live"
            /\ self' = InitAttrs
            /\ fs' = fs
            /\ last' = Call("__init__", 0, "ok")
    /\ UNCHANGED <<rank, config, backend, model, ncalls, dataVars>>

\* Logger.__init__: at rank 0 a fresh run refuses an existing logdir before
\* touching anything; otherwise makedirs (fresh run), SummaryWriter(logdir)
\* (creates the directory when missing and opens an events file) and
\* save_model_config (writes config.json).
LoggerInit ==
    /\ phase = "new"
    /\ IF rank = 0
       THEN IF ~config.continue_training /\ fs.exists
            THEN /\ phase' = "failed"
                 /\ self' = InitAttrs
                 /\ fs' = fs
                 /\ last' = Call("__init__", 0, "RuntimeError")
            ELSE /\ phase' = "live"
                 /\ self' = [InitAttrs EXCEPT !.summary_writer = "writer"]
                 /\ fs' = [fs EXCEPT !.exists = TRUE, !.events = TRUE, !.config_json = TRUE]
                 /\ last' = Call("__init__", 0, "ok")
       ELSE /\ phase' = "live"
            /\ self' = InitAttrs
            /\ fs' = fs
            /\ last' = Call("__init__", 0, "ok")
    /\ UNCHANGED <<rank, config, backend, model, ncalls, dataVars>>

\* A method call on a constructed Logger, within the call budget.
CanCall == phase = "live" /\ ncalls < MaxCalls

\* ---- Logger._log_losses / log_training / log_test ----------------------
\* add_scalar(key, value, iteration) for every entry of the prefixed stats.
LogLosses(prefix, iteration, stats) ==
    {[kind |-> "scalar", tag |-> <<prefix, k>>, step |-> iteration] : k \in stats}

\* Mutant: log_training without its rank gate.
LogTrainingUngated ==
    /\ CanCall
    /\ \E iteration \in Iterations, stats \in SUBSET Keys :
        /\ backend' = backend \cup LogLosses("training", iteration, stats)
        /\ last' = Call("log_training", iteration, "ok")
    /\ ncalls' = ncalls + 1
    /\ UNCHANGED <<phase, rank, config, self, fs, model, dataVars>>

LogTraining ==
    /\ CanCall
    /\ \E iteration \in Iterations, stats \in SUBSET Keys :
        /\ backend' = IF self.rank # 0 THEN backend
                      ELSE backend \cup LogLosses("training", iteration, stats)
        /\ last' = Call("log_training", iteration, "ok")
    /\ ncalls' = ncalls + 1
    /\ UNCHANGED <<phase, rank, config, self, fs, model, dataVars>>

LogTest ==
    /\ CanCall
    /\ \E iteration \in Iterations, stats \in SUBSET Keys :
        /\ backend' = IF self.rank # 0 THEN backend
                      ELSE backend \cup LogLosses("test", iteration, stats)
        /\ last' = Call("log_test", iteration, "ok")
    /\ ncalls' = ncalls + 1
    /\ UNCHANGED <<phase, rank, config, self, fs, model, dataVars>>

\* ---- Logger.log_audios / log_specs -------------------------------------
LogAudios ==
    /\ CanCall
    /\ \E iteration \in Iterations, audios \in SUBSET Keys :
        /\ backend' = IF self.rank # 0 THEN backend
                      ELSE backend \cup {[kind |-> "audio", tag |-> <<k>>, step |-> iteration] :
                                            k \in audios}
        /\ last' = Call("log_audios", iteration, "ok")
    /\ ncalls' = ncalls + 1
    /\ UNCHANGED <<phase, rank, config, self, fs, model, dataVars>>

LogSpecs ==
    /\ CanCall
    /\ \E iteration \in Iterations, specs \in SUBSET Keys :
        /\ backend' = IF self.rank # 0 THEN backend
                      ELSE backend \cup {[kind |-> "image", tag |-> <<k>>, step |-> iteration] :
                                            k \in specs}
        /\ last' = Call("log_specs", iteration, "ok")
    /\ ncalls' = ncalls + 1
    /\ UNCHANGED <<phase, rank, config, self, fs, model, dataVars>>

\* ---- Logger.save_model_config ------------------------------------------
\* open(logdir/config.json, 'w') raises when the directory is missing.
SaveModelConfig ==
    /\ CanCall
    /\ IF self.rank # 0
       THEN /\ fs' = fs
            /\ last' = Call("save_model_config", 0, "ok")
       ELSE IF fs.exists
            THEN /\ fs' = [fs EXCEPT !.config_json = TRUE]
                 /\ last' = Call("save_model_config", 0, "ok")
            ELSE /\ fs' = fs
                 /\ last' = Call("save_model_config", 0, "FileNotFoundError")
    /\ ncalls' = ncalls + 1
    /\ UNCHANGED <<phase, rank, config, self, backend, model, dataVars>>

\* ---- Logger.save_checkpoint --------------------------------------------
\* Lines 79-81, run once torch.save has returned: the read of
\* self.latest_checkpoint_path raises AttributeError while no attribute of
\* that name exists; otherwise the tracked file is removed (os.remove raises
\* when it is gone) and the attribute is set to the new file.
Rotate(iteration) ==
    IF "latest_checkpoint_path" \notin DOMAIN self
    THEN /\ self' = self
         /\ fs' = [fs EXCEPT !.ckpt[iteration] = "complete"]
         /\ last' = Call("save_checkpoint", iteration, "AttributeError")
    ELSE IF self["latest_checkpoint_path"] = NoPath
    THEN /\ self' = [self EXCEPT !["latest_checkpoint_path"] = Path(iteration)]
         /\ fs' = [fs EXCEPT !.ckpt[iteration] = "complete"]
         /\ last' = Call("save_checkpoint", iteration, "ok")
    ELSE IF [fs.ckpt EXCEPT ![iteration] = "complete"][self["latest_checkpoint_path"][1]] = "absent"
    THEN /\ self' = self
         /\ fs' = [fs EXCEPT !.ckpt[iteration] = "complete"]
         /\ last' = Call("save_checkpoint", iteration, "FileNotFoundError")
    ELSE /\ self' = [self EXCEPT !["latest_checkpoint_path"] = Path(iteration)]
         /\ fs' = [fs EXCEPT !.ckpt =
                      [[fs.ckpt EXCEPT ![iteration] = "complete"]
                          EXCEPT ![self["latest_checkpoint_path"][1]] = "absent"]]
         /\ last' = Call("save_checkpoint", iteration, "ok")

\* torch.save(d, filename) either returns with the file written, or fails
\* part-way (an I/O error, a crash) and leaves the file truncated; in the
\* second case lines 79-81 do not run.
SaveCheckpoint ==
    /\ CanCall
    /\ \E iteration \in Iterations, written \in BOOLEAN :
        IF self.rank # 0
        THEN /\ self' = self
             /\ fs' = fs
             /\ last' = Call("save_checkpoint", iteration, "ok")
        ELSE IF ~written
        THEN /\ self' = self
             /\ fs' = [fs EXCEPT !.ckpt[iteration] = "truncated"]
             /\ last' = Call("save_checkpoint", iteration, "IOError")
        ELSE Rotate(iteration)
    /\ ncalls' = ncalls + 1
    /\ UNCHANGED <<phase, rank, config, backend, model, dataVars>>

\* ---- utils.load_latest_checkpoint (not in src/) -------------------------
\* Locates the most recent checkpoint of the log directory and restores it
\* into the model/optimizer; fails when there is none or it cannot be
\* deserialized.  Yields <<result, restored iteration>>.
UtilsLoadLatest ==
    IF CheckpointFiles = {}
    THEN <<"FileNotFoundError", model>>
    ELSE IF fs.ckpt[Max(CheckpointFiles)] = "truncated"
    THEN <<"UnpicklingError", model>>
    ELSE <<"ok", Max(CheckpointFiles)>>

\* ---- Logger.load_latest_checkpoint --------------------------------------
\* No rank test: raises unless continue_training, else defers to utils.
LoadLatestCheckpoint ==
    /\ CanCall
    /\ IF ~self.continue_training
       THEN /\ model' = model
            /\ last' = Call("load_latest_checkpoint", 0, "RuntimeError")
       ELSE /\ model' = UtilsLoadLatest[2]
            /\ last' = Call("load_latest_checkpoint", UtilsLoadLatest[2], UtilsLoadLatest[1])
    /\ ncalls' = ncalls + 1
    /\ UNCHANGED <<phase, rank, config, self, fs, backend, dataVars>>

\* ---- the Logger's environment -------------------------------------------
\* The log directory before the Logger is built: missing, present and empty,
\* or left by an earlier run with its config.json and events file, with or
\* without that run's checkpoint.
InitialDirs ==
    {[exists |-> FALSE, config_json |-> FALSE, events |-> FALSE, ckpt |-> NoCkpt],
     [exists |-> TRUE, config_json |-> FALSE, events |-> FALSE, ckpt |-> NoCkpt]}
    \cup {[exists |-> TRUE, config_json |-> TRUE, events |-> TRUE,
           ckpt |-> [i \in Iterations |-> IF i \in S THEN "complete" ELSE "absent"]] :
             S \in {{}, {1}}}

NoDataset == [training |-> FALSE, hop_length |-> 1, sample_rate |-> 22050, files |-> <<>>]
NoRet == [op |-> "none"]

InitLogger ==
    /\ phase = "new"
    /\ rank \in Ranks
    /\ config \in [continue_training : BOOLEAN]
    /\ self = [rank |-> rank]
    /\ fs \in InitialDirs
    /\ backend = {}
    /\ model = 0
    /\ ncalls = 0
    /\ last = Call("none", 0, "ok")
    /\ dataset = NoDataset
    /\ ret = NoRet

NextLogger ==
    \/ LoggerInit
    \/ LogTraining
    \/ LogTest
    \/ LogAudios
    \/ LogSpecs
    \/ SaveModelConfig
    \/ SaveCheckpoint
    \/ LoadLatestCheckpoint

SpecLogger == InitLogger /\ [][NextLogger]_vars


\* ================================================================ data.py

\* A tensor is its shape and its elements in row-major order.
Tensor(shape, data) == [shape |-> shape, data |-> data]

Min(a, b) == IF a < b THEN a ELSE b

Zeros(n) == [i \in 1..n |-> 0]

\* The samples of the clip filelist entry `index` names.  Every sample carries
\* a nonzero label made of its file and its position, so that a returned
\* segment shows where each of its samples came from and what is padding.
Waveform(index, length) == [i \in 1..length |-> 10 * (index + 1) + i]

\* torchaudio.load: a mono clip of L samples loads as a [1, L] tensor.
TorchaudioLoad(index) ==
    Tensor(<<1, dataset.files[index + 1].length>>,
           Waveform(index, dataset.files[index + 1].length))

\* torch.nn.functional.pad(t, (0, p), "constant"): p zeros after each row of
\* the last axis.
Pad(t, p) ==
    LET last_ == t.shape[Len(t.shape)]
        rows == IF last_ = 0 THEN 0 ELSE Len(t.data) \div last_
        width == last_ + p
    IN  Tensor([t.shape EXCEPT ![Len(t.shape)] = width],
               [j \in 1..(rows * width) |->
                   IF (j - 1) % width < last_
                   THEN t.data[((j - 1) \div width) * last_ + ((j - 1) % width) + 1]
                   ELSE 0])

\* Tensor.squeeze(): every axis of size 1 is dropped.
Squeeze(t) == Tensor(SelectSeq(t.shape, LAMBDA d : d # 1), t.data)

\* t[a:b] on a tensor of one axis or more: the slice of the first axis, its
\* ends clamped to the axis as Python slicing clamps them.
Slice(t, a, b) ==
    LET n == t.shape[1]
        lo == Min(a, n)
        hi == Min(b, n)
        row == IF n = 0 THEN 0 ELSE Len(t.data) \div n
    IN  IF hi <= lo
        THEN Tensor(<<0>> \o Tail(t.shape), <<>>)
        ELSE Tensor(<<hi - lo>> \o Tail(t.shape), SubSeq(t.data, lo * row + 1, hi * row))

\* ---- AudioDataset.load_audio_to_torch ----------------------------------
\* The number of zeros appended in inference mode (lines 39-41).
\* Mutant: the padding that only rounds up to the next multiple of the hop.
InferencePadRoundUp(length, hop) == ((length + hop - 1) \div hop) * hop - length

InferencePad(length, hop) == (length \div hop + 1) * hop - length

LoadAudioToTorch(index) ==
    LET audio == TorchaudioLoad(index)
    IN  IF ~dataset.training
        THEN Squeeze(Pad(audio, InferencePad(audio.shape[2], dataset.hop_length)))
        ELSE Squeeze(audio)

\* ---- AudioDataset.__getitem__ ------------------------------------------
\* np.random.randint(low, high): the integers from low up to, not including,
\* high.
RandInt(low, high) == low..(high - 1)

\* Line 58.  Mutant: the segment length is not taken off the clip length.
MaxAudioStartWholeClip(length, segment_length) == length

MaxAudioStart(length, segment_length) == length - segment_length

\* What one retrieval can yield: a returned tensor (with the start offset a
\* crop drew), or the exception it raises.
Item(value, crop) == [kind |-> "ok", value |-> value, crop |-> crop]
Raised(kind) == [kind |-> kind, value |-> Tensor(<<>>, <<>>), crop |-> <<>>]

GetItemOutcomes(index) ==
    LET audio == LoadAudioToTorch(index)
    IN  IF dataset.files[index + 1].sample_rate # dataset.sample_rate
        THEN {Raised("AssertionError")}
        ELSE IF ~dataset.training
        THEN {Item(audio, <<>>)}
        ELSE IF Len(audio.shape) = 0
        THEN {Raised("IndexError")}
        ELSE IF audio.shape[Len(audio.shape)] > dataset.segment_length
        THEN {Item(Slice(audio, audio_start, audio_start + dataset.segment_length),
                   <<audio_start>>) :
                audio_start \in RandInt(0, MaxAudioStart(audio.shape[Len(audio.shape)],
                                                         dataset.segment_length))}
        ELSE {Item(Pad(audio, dataset.segment_length - audio.shape[Len(audio.shape)]), <<>>)}

\* ---- AudioDataset.__len__ ----------------------------------------------
DatasetLen == Len(dataset.files)

GetItem ==
    /\ \E index \in 0..(DatasetLen - 1) :
        \E r \in GetItemOutcomes(index) :
            ret' = [op |-> "getitem", arg |-> index, kind |-> r.kind,
                    idx |-> <<index>>, items |-> <<r>>]
    /\ UNCHANGED <<dataset, loggerVars>>

\* ---- AudioDataset.sample_test_batch ------------------------------------
\* np.random.choice(range(n), size, replace=False): every sequence of `size`
\* pairwise distinct indices; none when size exceeds n (ValueError).
RECURSIVE Choice(_, _)
Choice(n, size) ==
    IF size = 0
    THEN {<<>>}
    ELSE {Append(p[1], p[2]) :
            p \in {q \in Choice(n, size - 1) \X (0..(n - 1)) :
                      \A j \in 1..Len(q[1]) : q[1][j] # q[2]}}

\* The loop of lines 73-74 over idx: the items appended so far, or the
\* exception of the first retrieval that raises.
RECURSIVE Batch(_)
Batch(idx) ==
    IF idx = <<>>
    THEN {[kind |-> "ok", items |-> <<>>]}
    ELSE UNION {IF b.kind # "ok"
                THEN {b}
                ELSE {IF r.kind = "ok"
                      THEN [kind |-> "ok", items |-> Append(b.items, r)]
                      ELSE [kind |-> r.kind, items |-> <<>>] :
                        r \in GetItemOutcomes(idx[Len(idx)])} :
                  b \in Batch(SubSeq(idx, 1, Len(idx) - 1))}

SampleTestBatch ==
    /\ \E size \in 0..(DatasetLen + 1) :
        IF Choice(DatasetLen, size) = {}
        THEN ret' = [op |-> "sample_test_batch", arg |-> size, kind |-> "ValueError",
                     idx |-> <<>>, items |-> <<>>]
        ELSE \E idx \in Choice(DatasetLen, size) :
                \E b \in Batch(idx) :
                    ret' = [op |-> "sample_test_batch", arg |-> size, kind |-> b.kind,
                            idx |-> idx, items |-> b.items]
    /\ UNCHANGED <<dataset, loggerVars>>

\* ---- the dataset's environment -----------------------------------------
SampleRates == {16000, 22050}

\* A filelist entry: a mono clip of at least one sample at some sample rate.
Files == [length : 1..MaxLen, sample_rate : SampleRates]

Filelists == UNION {[1..n -> Files] : n \in 1..MaxFiles}

\* AudioDataset.__init__: segment_length exists in training mode only.
Datasets ==
    {[training |-> TRUE, segment_length |-> seg, hop_length |-> hop,
      sample_rate |-> 22050, files |-> fl] :
        seg \in 1..MaxSeg, hop \in 1..MaxHop, fl \in Filelists}
    \cup
    {[training |-> FALSE, hop_length |-> hop, sample_rate |-> 22050, files |-> fl] :
        hop \in 1..MaxHop, fl \in Filelists}

InitData ==
    /\ dataset \in Datasets
    /\ ret = NoRet
    /\ phase = "new"
    /\ rank = 0
    /\ config = [continue_training |-> FALSE]
    /\ self = [rank |-> 0]
    /\ fs = [exists |-> FALSE, config_json |-> FALSE, events |-> FALSE, ckpt |-> NoCkpt]
    /\ backend = {}
    /\ model = 0
    /\ ncalls = 0
    /\ last = Call("none", 0, "ok")

NextData ==
    \/ GetItem
    \/ SampleTestBatch

SpecData == InitData /\ [][NextData]_vars

\* ================================================================ claims on logger.py

\* The tracked-latest pointer as save_checkpoint reads it back.
Tracked(s) ==
    IF "latest_checkpoint_path" \in DOMAIN s THEN s["latest_checkpoint_path"] ELSE NoPath

\* A step that is a call of save_checkpoint on a rank-0 Logger.
SaveStep == phase = "live" /\ rank = 0 /\ ncalls' = ncalls + 1 /\ last'.op = "save_checkpoint"

\* C1 (as claimed): on a rank-0 Logger whose first call was a save_checkpoint
\* that wrote checkpoint_{i1}.pt into a directory holding no other checkpoint,
\* a second save_checkpoint that writes checkpoint_{i2}.pt leaves exactly that
\* one checkpoint file in the directory.
C1_TwoSavesLeaveSecond ==
    [][(/\ SaveStep
        /\ ncalls = 1
        /\ last.op = "save_checkpoint"
        /\ last.result # "IOError"
        /\ CheckpointFiles = {last.iteration}
        /\ last'.result # "IOError")
       => {i \in Iterations : fs'.ckpt[i] # "absent"} = {last'.iteration}]_vars

\* C2 (as claimed): on a rank-0 Logger that started a fresh run (so every
\* checkpoint in the directory is one it saved), the directory never holds more
\* than two checkpoint files, and holds at least one once a save has written
\* its file.  Only completely written files are counted, so that a file a
\* failed write left behind is never what breaks the bound.
C2_AtMostTwoCheckpoints ==
    (phase = "live" /\ rank = 0 /\ ~config.continue_training)
        => /\ Cardinality({i \in Iterations : fs.ckpt[i] = "complete"}) <= 2
           /\ (last.op = "save_checkpoint" => CheckpointFiles # {})

GatedOps ==
    {"log_training", "log_test", "log_audios", "log_specs", "save_model_config",
     "save_checkpoint"}

\* A step that is a method call on a Logger of rank other than 0.
OtherRankCall == phase = "live" /\ rank # 0 /\ ncalls' = ncalls + 1

\* C3 (as claimed): on a Logger of rank other than 0 every method call,
\* load_latest_checkpoint included, returns without raising and leaves the
\* directory, the backend, the Logger's attributes and the model unchanged.
C3_EveryOpNoOp ==
    [][OtherRankCall
       => /\ last'.result = "ok"
          /\ UNCHANGED <<fs, backend, self, model>>]_vars

\* C3 (amended): on a Logger of rank other than 0 the six rank-gated methods
\* return without raising and change nothing; load_latest_checkpoint is not
\* gated: it raises RuntimeError when continue_training is false, and in every
\* case leaves the directory, the backend and the Logger's attributes alone.
C3_GatedOpsNoOp ==
    [][OtherRankCall
       => /\ last'.op \in GatedOps
             => /\ last'.result = "ok"
                /\ UNCHANGED <<fs, backend, self, model>>
          /\ last'.op = "load_latest_checkpoint"
             => /\ UNCHANGED <<fs, backend, self>>
                /\ ~config.continue_training
                   => last'.result = "RuntimeError" /\ model' = model
          /\ last'.op \in GatedOps \cup {"load_latest_checkpoint"}]_vars

\* C3 witness: a rank-1 Logger over an existing directory that holds a
\* checkpoint has had save_checkpoint called on it.
C3_Witness ==
    /\ phase = "live"
    /\ rank # 0
    /\ last.op = "save_checkpoint"
    /\ fs.exists
    /\ CheckpointFiles # {}

\* C4: building a rank-0 Logger for a fresh run over an existing log directory
\* raises RuntimeError, and leaves the directory as it was and no
\* SummaryWriter session opened.
C4_FreshRunOnExistingDirRaises ==
    [][(phase = "new" /\ rank = 0 /\ ~config.continue_training /\ fs.exists)
       => /\ phase' = "failed"
          /\ last'.result = "RuntimeError"
          /\ fs' = fs
          /\ backend' = backend
          /\ self'.summary_writer = None]_vars

\* C4 witness: the constructor has raised over an existing, empty directory.
C4_Witness ==
    /\ phase = "failed"
    /\ rank = 0
    /\ ~config.continue_training
    /\ fs.exists
    /\ ~fs.config_json

\* C10 (as claimed): in a rank-0 save_checkpoint, a failed write leaves the
\* tracked pointer unchanged and the tracked file in place, and a write that
\* returned is followed by the rotation: the pointer ends as the new file.
C10_WriteThenRotate ==
    [][SaveStep
       => IF last'.result = "IOError"
          THEN /\ Tracked(self') = Tracked(self)
               /\ Tracked(self) # NoPath => fs'.ckpt[Tracked(self)[1]] # "absent"
          ELSE Tracked(self') = Path(last'.iteration)]_vars

\* ================================================================ claims on data.py

\* The clip the last __getitem__ call named, and whether the call passes the
\* sample-rate assertion of lines 49-52.
ClipLen(index) == dataset.files[index + 1].length
RateOk(index) == dataset.files[index + 1].sample_rate = dataset.sample_rate
GotItem == ret.op = "getitem"

\* C5: in training mode a retrieval of a clip longer than segment_length (at
\* the configured sample rate) returns segment_length samples that are the
\* run clip[s .. s+segment_length-1] for some s with 0 <= s and
\* s + segment_length <= L.
C5_CropIsContiguousRun ==
    (GotItem /\ dataset.training /\ RateOk(ret.arg)
        /\ ClipLen(ret.arg) > dataset.segment_length)
    => /\ ret.kind = "ok"
       /\ ret.items[1].value.shape = <<dataset.segment_length>>
       /\ \E s \in 0..(ClipLen(ret.arg) - dataset.segment_length) :
            ret.items[1].value.data =
                SubSeq(Waveform(ret.arg, ClipLen(ret.arg)), s + 1, s + dataset.segment_length)

\* C5 witness: a crop that starts past the first sample has been returned.
C5_Witness ==
    /\ GotItem
    /\ dataset.training
    /\ ClipLen(ret.arg) > dataset.segment_length
    /\ ret.kind = "ok"
    /\ ret.items[1].crop = <<1>>

\* C6 (as claimed): in training mode a retrieval of a clip of 1 <= L <=
\* segment_length samples returns segment_length samples: the clip, then
\* zeros.
C6_ShortClipZeroPadded ==
    (GotItem /\ dataset.training /\ RateOk(ret.arg)
        /\ ClipLen(ret.arg) <= dataset.segment_length)
    => /\ ret.kind = "ok"
       /\ ret.items[1].value.shape = <<dataset.segment_length>>
       /\ ret.items[1].value.data =
            Waveform(ret.arg, ClipLen(ret.arg))
                \o Zeros(dataset.segment_length - ClipLen(ret.arg))

\* C7: in inference mode a retrieval returns the whole clip followed by zeros,
\* ((L // hop) + 1) * hop samples in all: a positive multiple of hop that is
\* greater than L.
C7_InferencePadsPastNextHop ==
    (GotItem /\ ~dataset.training /\ RateOk(ret.arg))
    => LET L == ClipLen(ret.arg)
           hop == dataset.hop_length
           padded == ((L \div hop) + 1) * hop
       IN  /\ ret.kind = "ok"
           /\ ret.items[1].value.shape = <<padded>>
           /\ ret.items[1].value.data = Waveform(ret.arg, L) \o Zeros(padded - L)
           /\ Len(ret.items[1].value.data) % hop = 0
           /\ Len(ret.items[1].value.data) > L
           /\ Len(ret.items[1].value.data) > 0

\* C7 witness: a clip whose length is already a multiple of a hop of two or
\* more has been retrieved in inference mode.
C7_Witness ==
    /\ GotItem
    /\ ~dataset.training
    /\ ret.kind = "ok"
    /\ dataset.hop_length > 1
    /\ ClipLen(ret.arg) % dataset.hop_length = 0

\* C8 (as claimed): over a filelist of N clips at the configured sample rate,
\* sample_test_batch(n) with n <= N returns n items, the retrievals of n
\* pairwise distinct indices of 0..N-1, and with n > N raises.
C8_BatchOfDistinctIndices ==
    (ret.op = "sample_test_batch" /\ \A i \in 0..(DatasetLen - 1) : RateOk(i))
    => IF ret.arg <= DatasetLen
       THEN /\ ret.kind = "ok"
            /\ Len(ret.items) = ret.arg
            /\ Len(ret.idx) = ret.arg
            /\ \A j \in 1..Len(ret.idx) :
                /\ ret.idx[j] \in 0..(DatasetLen - 1)
                /\ ret.items[j] \in GetItemOutcomes(ret.idx[j])
                /\ \A k \in 1..Len(ret.idx) : ret.idx[k] = ret.idx[j] => k = j
       ELSE ret.kind = "ValueError"

\* C9 (as claimed): in training mode, for a retrieved clip longer than
\* segment_length, the start offsets the retrieval can draw are exactly
\* 0 .. L - segment_length, the last one included.
C9_EveryOffsetPossible ==
    (GotItem /\ dataset.training /\ RateOk(ret.arg)
        /\ ClipLen(ret.arg) > dataset.segment_length)
    => {r.crop[1] : r \in GetItemOutcomes(ret.arg)}
           = 0..(ClipLen(ret.arg) - dataset.segment_length)

====
